---- MODULE Spec2Model ----
(***************************************************************************)
(* A model of cubedash/_model.py: the memoized summary queries, the        *)
(* footprint reprojection, the region clipper and the GeoJSON assembly.    *)
(*                                                                         *)
(* Geometry is modelled on a square cell complex: a point set is a set of  *)
(* atoms <<i, j>>; both coordinates odd is an open unit cell, one odd an   *)
(* open edge, both even a vertex.  A closed tile is a cell with its edges  *)
(* and vertices, so two neighbouring tiles share an edge, as closed        *)
(* polygons do.                                                            *)
(***************************************************************************)
EXTENDS Integers, Sequences, FiniteSets, TLC

VARIABLES clock, cache, last, calls, clipFootprint, clipResult

vars == <<clock, cache, last, calls, clipFootprint, clipResult>>

(***************************************************************************)
(* Bounds of the model.                                                    *)
(***************************************************************************)
GridSize == 3
TickStep == 40
MaxClock == 100
MaxCalls == 3

(***************************************************************************)
(* Python's None, and Optional[int] arguments.                             *)
(***************************************************************************)
None == [type |-> "None"]

Some(n) == [type |-> "Int", val |-> n]

(***************************************************************************)
(* Point sets.                                                             *)
(***************************************************************************)
Cells == (0 .. GridSize - 1) \X (0 .. GridSize - 1)

Atoms == (0 .. 2 * GridSize) \X (0 .. 2 * GridSize)

\* The closed unit tile of cell c.
ClosedCell(c) ==
    {a \in Atoms : /\ 2 * c[1] <= a[1] /\ a[1] <= 2 * c[1] + 2
                   /\ 2 * c[2] <= a[2] /\ a[2] <= 2 * c[2] + 2}

\* The closed polygon (or multipolygon) covering a set of cells.
Polygon(cs) == UNION {ClosedCell(c) : c \in cs}

\* The coordinates around n in which an atom with coordinate n has neighbours.
Around(n) == IF n % 2 = 1 THEN {n} ELSE {n - 1, n, n + 1}

\* The open neighbourhood of atom a in the plane (it may leave the grid).
Star(a) == Around(a[1]) \X Around(a[2])

\* shapely's geometry.boundary: the points of g that are not interior to it,
\* which for a polygon with holes are its outer ring and its hole rings.
Boundary(g) == {a \in g : ~(Star(a) \subseteq g)}

\* shapely's a.intersects(b): the two closed point sets share a point.
Intersects(g, h) == g \cap h # {}

\* shapely's a.intersection(b).
Intersection(g, h) == g \cap h


\* A shapely geometry object: its point set.
Geom(points) == [type |-> "Geometry", points |-> points]

(***************************************************************************)
(* cubedash.summary._extents.RegionInfo: the tiling scheme of a product.   *)
(* A region code is <<column, row, width>>: the region covers `width`      *)
(* tiles of the row, from the column on (regions overlap, as the paths and *)
(* rows of a satellite's scenes do).                                       *)
(***************************************************************************)
RegionWidths == {1, 2}

RegionCodes ==
    {code \in (0 .. GridSize - 1) \X (0 .. GridSize - 1) \X RegionWidths :
        code[1] + code[3] <= GridSize}

\* The tiles a region covers.
RegionCells(region_code) ==
    {c \in Cells : /\ c[2] = region_code[2]
                   /\ region_code[1] <= c[1]
                   /\ c[1] < region_code[1] + region_code[3]}

\* RegionInfo.geographic_extent(region_code), in display coordinates.
region_shape(region_code) == Geom(Polygon(RegionCells(region_code)))

\* RegionInfo.region_label(region_code).
region_label(region_code) == <<"Row", region_code[2], "Column", region_code[1]>>

\* A RegionInfo; has_extent is whether geographic_extent is a function.
RegionInfoOf(has_extent) ==
    [type |-> "RegionInfo", name |-> "tiles", unit_label |-> "tile",
     has_extent |-> has_extent]

(***************************************************************************)
(* The region clipper.  `cut` records whether footprint.intersection() was *)
(* evaluated for the region.                                               *)
(***************************************************************************)
\* region_geometry_cut with the boundary test dropped: every region is cut.
region_geometry_cut_always(footprint, region_code) ==
    [geometry |-> Geom(Intersection(footprint.points, region_shape(region_code).points)),
     cut |-> TRUE]

\* region_geometry_cut with the cut dropped: every region keeps its extent.
region_geometry_cut_never(footprint, region_code) ==
    [geometry |-> region_shape(region_code), cut |-> FALSE]

region_geometry_cut(footprint, region_code) ==
    LET footprint_boundary == Boundary(footprint.points)
        shapely_extent == region_shape(region_code)
    IN  IF Intersects(footprint_boundary, shapely_extent.points)
        THEN [geometry |-> Geom(Intersection(footprint.points, shapely_extent.points)),
              cut |-> TRUE]
        ELSE [geometry |-> shapely_extent, cut |-> FALSE]

\* Whether _region_geometry_function returns a callable (a truthy value).
region_geometry_callable(region_info, footprint) ==
    footprint # None \/ region_info.has_extent

\* _region_geometry_function(region_info, footprint)(region_code), where the
\* returned function is callable and region_info has extents.
_region_geometry_function(region_info, footprint, region_code) ==
    IF footprint = None
    THEN [geometry |-> region_shape(region_code), cut |-> FALSE]
    ELSE region_geometry_cut(footprint, region_code)

(***************************************************************************)
(* The reprojector.  pyproj.transform is modelled as the translation of    *)
(* every coordinate from the source grid to the display grid.              *)
(***************************************************************************)
DisplayCrs == "epsg:4326"

SourceCrs == "EPSG:32755"

\* The offset of a coordinate reference system's grid from the display grid.
CrsOffset(crs) == IF crs = DisplayCrs THEN 0 ELSE 2 * GridSize + 2

\* pyproj.transform(from_crs, to_crs, x, y) with to_crs the display system.
Transform(from_crs, pt) == <<pt[1] - CrsOffset(from_crs), pt[2] - CrsOffset(from_crs)>>

\* shapely.ops.transform(func, geom): func applied to every coordinate.
ShapelyTransform(from_crs, geom) == Geom({Transform(from_crs, pt) : pt \in geom.points})

\* A footprint as the summary backend records it, in the source system.
Recorded(points) == Geom({<<pt[1] + CrsOffset(SourceCrs), pt[2] + CrsOffset(SourceCrs)>> : pt \in points})

_get_footprint(period) ==
    IF period = None \/ period.dataset_count = 0
    THEN None
    ELSE IF period.footprint_geometry = None \/ period.footprint_geometry.points = {}
         THEN None
         ELSE ShapelyTransform(period.footprint_crs, period.footprint_geometry)

\* geometry.__geo_interface__: the GeoJSON mapping of a geometry.
GeoInterface(geom) == [type |-> "MultiPolygon", coordinates |-> geom.points]

(***************************************************************************)
(* Period summaries (cubedash.summary.TimePeriodOverview) the backend may  *)
(* hold.                                                                   *)
(***************************************************************************)
Overview(dataset_count, footprint_count, footprint_geometry, region_dataset_counts) ==
    [type |-> "TimePeriodOverview",
     dataset_count |-> dataset_count,
     footprint_count |-> footprint_count,
     footprint_geometry |-> footprint_geometry,
     footprint_crs |-> SourceCrs,
     region_dataset_counts |-> region_dataset_counts]

\* The tiles a recorded footprint covers.
FootprintCells == {<<0, 0>>, <<0, 1>>}

Overviews ==
    { Overview(0, 0, None, <<>>),
      Overview(3, 2, Recorded(Polygon(FootprintCells)),
               (<<0, 0, 1>> :> 1) @@ (<<0, 0, 2>> :> 2)) }

OptionalOverviews == Overviews \cup {None}

(***************************************************************************)
(* Arguments of the queries.                                               *)
(***************************************************************************)
Products == {"ls8_nbar_scene"}

TimeSpecs == { <<None, None, None>>, <<Some(2018), Some(1), Some(5)>> }

\* (product_name, year, month, day)
Keys == {<<p, t[1], t[2], t[3]>> : p \in Products, t \in TimeSpecs}

DefaultLimit == 500

Limits == {DefaultLimit}

(***************************************************************************)
(* The cache: flask_caching's Cache with CACHE_TYPE 'simple', and its      *)
(* memoize decorator.  An entry holds the value and the time it expires;   *)
(* asof is history: the earliest time at which backend data the value was  *)
(* derived from was read.                                                  *)
(***************************************************************************)
SummaryTimeout == 60
DatasetsTimeout == 60
LastUpdatedTimeout == 120
ProductsTimeout == 120
\* The footprint entries kept twice as long as the summaries.
FootprintTimeoutDoubled == 2 * SummaryTimeout
FootprintTimeout == 60
RegionsTimeout == 60

NoEntry == [type |-> "NoEntry"]

Entry(value, expires, asof) ==
    [type |-> "Entry", value |-> value, expires |-> expires, asof |-> asof]

CacheKeys ==
    {<<fn, k>> : fn \in {"get_summary", "get_footprint_geojson", "get_regions_geojson"},
                 k \in Keys}
    \cup {<<"get_datasets_geojson", k \o <<l>>>> : k \in Keys, l \in Limits}
    \cup {<<"get_last_updated", <<>>>>, <<"get_products_with_summaries", <<>>>>}

\* Whether the cache holds an entry of key ck that has not expired.
Unexpired(c, ck, now) == c[ck].type = "Entry" /\ c[ck].expires > now

\* SimpleCache.get(key): the stored value, or None when there is no entry
\* or it has expired.
SimpleCacheGet(c, ck, now) == IF Unexpired(c, ck, now) THEN c[ck].value ELSE None

\* memoize's test after cache.get: a value of None is a miss, whether the
\* key is absent or None was stored.
MemoHit(c, ck, now) == SimpleCacheGet(c, ck, now) # None

\* SimpleCache.set(key, value, timeout).
SimpleCacheSet(c, ck, value, timeout, now, asof) ==
    [c EXCEPT ![ck] = Entry(value, now + timeout, asof)]

(***************************************************************************)
(* What a call did.  raised is the exception's name, "" for a return.      *)
(* backend counts the calls made to STORE; refreshed, warned and minmax    *)
(* record that get_or_update ran, that a warning was logged and that       *)
(* min()/max() of the region counts were evaluated.                        *)
(***************************************************************************)
Returned(c) ==
    [cache |-> c, value |-> None, raised |-> "", hit |-> FALSE,
     backend |-> 0, asof |-> 0, refreshed |-> FALSE, warned |-> FALSE,
     period |-> None, minmax |-> FALSE]

\* A memoized call answered from the cache.
FromCache(c, ck, now) ==
    [Returned(c) EXCEPT !.value = SimpleCacheGet(c, ck, now),
                            !.hit = TRUE,
                            !.asof = c[ck].asof]

(***************************************************************************)
(* The summary backend (cubedash.summary.SummaryStore).  It is shared with *)
(* the summary generation, which rewrites summaries at any time: a call    *)
(* finds it in any state.  `stored` is the summaries it holds when the     *)
(* call returns, a function of Keys: for a key the call updates, the       *)
(* summary the update produced.                                            *)
(***************************************************************************)
StoredSummaries == [Keys -> OptionalOverviews]

\* The states of the backend that the calls reading only the summaries of
\* the keys ks can tell apart (the other summaries are taken absent).
StoredAt(ks) == {stored \in StoredSummaries : \A k \in Keys \ ks : stored[k] = None}

\* STORE.get(product_name, year, month, day): a read of the stored summary.
StoreGet(stored, k) == stored[k]

\* STORE.get_or_update(...): refreshes the stored summary from the datasets
\* now indexed and returns it.
StoreGetOrUpdate(stored, k) == stored[k]

(***************************************************************************)
(* get_summary                                                             *)
(***************************************************************************)
\* get_summary with the day's update dropped: a read at every granularity.
get_summary_read_only(stored, k) ==
    [value |-> StoreGet(stored, k), refreshed |-> FALSE]

\* The function under the decorator (flask_caching keeps it as .uncached).
get_summary_uncached(stored, k) ==
    IF k[4] # None
    THEN [value |-> StoreGetOrUpdate(stored, k), refreshed |-> TRUE]
    ELSE [value |-> StoreGet(stored, k), refreshed |-> FALSE]

get_summary(c, stored, k, now) ==
    LET ck == <<"get_summary", k>>
    IN  IF MemoHit(c, ck, now)
        THEN FromCache(c, ck, now)
        ELSE LET r == get_summary_uncached(stored, k)
             IN  [Returned(SimpleCacheSet(c, ck, r.value, SummaryTimeout, now, now))
                    EXCEPT !.value = r.value,
                           !.backend = 1,
                           !.asof = now,
                           !.refreshed = r.refreshed,
                           !.period = r.value]

(***************************************************************************)
(* get_datasets_geojson: a pass-through to STORE.get_dataset_footprints,   *)
(* whose answer is `footprints`.                                           *)
(***************************************************************************)
get_datasets_geojson(c, k, limit, now, footprints) ==
    LET ck == <<"get_datasets_geojson", k \o <<limit>>>>
    IN  IF MemoHit(c, ck, now)
        THEN FromCache(c, ck, now)
        ELSE [Returned(SimpleCacheSet(c, ck, footprints, DatasetsTimeout, now, now))
                EXCEPT !.value = footprints, !.backend = 1, !.asof = now]

(***************************************************************************)
(* get_last_updated                                                        *)
(***************************************************************************)
Datetime(y, m, d) == [type |-> "datetime", year |-> y, month |-> m, day |-> d]

\* The texts generated.txt may hold.
FileTexts == {"2018-05-20", "20 May 2018", "generated yesterday"}

\* The override file: None when it does not exist.
OptionalFiles == {None} \cup {[type |-> "File", text |-> t] : t \in FileTexts}

\* dateutil.parser.parse(date_text): the timestamp, or a ValueError.
DateutilParse(date_text) ==
    CASE date_text = "2018-05-20" -> [raised |-> "", value |-> Datetime(2018, 5, 20)]
      [] date_text = "20 May 2018" -> [raised |-> "", value |-> Datetime(2018, 5, 20)]
      [] OTHER -> [raised |-> "ValueError", value |-> None]

\* The timestamps STORE.get_last_updated() may answer.
BackendTimestamps == {Datetime(2018, 5, 20), Datetime(2018, 6, 1)}

\* get_last_updated answering nothing when the file's text does not parse.
get_last_updated_no_fallback(file, backend_updated) ==
    IF file # None
    THEN [value |-> DateutilParse(file.text).value,
          backend |-> 0,
          warned |-> DateutilParse(file.text).raised # ""]
    ELSE [value |-> backend_updated, backend |-> 1, warned |-> FALSE]

\* The function under the decorator: backend is 1 when it asked
\* STORE.get_last_updated(), whose answer is backend_updated.
get_last_updated_uncached(file, backend_updated) ==
    LET fromStore == [value |-> backend_updated, backend |-> 1, warned |-> FALSE]
    IN  IF file # None
        THEN LET parsed == DateutilParse(file.text)
             IN  IF parsed.raised = ""
                 THEN [value |-> parsed.value, backend |-> 0, warned |-> FALSE]
                 ELSE [fromStore EXCEPT !.warned = TRUE]
        ELSE fromStore

get_last_updated(c, now, file, backend_updated) ==
    LET ck == <<"get_last_updated", <<>>>>
    IN  IF MemoHit(c, ck, now)
        THEN FromCache(c, ck, now)
        ELSE LET r == get_last_updated_uncached(file, backend_updated)
             IN  [Returned(SimpleCacheSet(c, ck, r.value, LastUpdatedTimeout, now, now))
                    EXCEPT !.value = r.value,
                           !.backend = r.backend,
                           !.warned = r.warned,
                           !.asof = now]

(***************************************************************************)
(* get_products_with_summaries                                             *)
(***************************************************************************)
DatasetType(name) == [type |-> "DatasetType", name |-> name]

Min2(a, b) == IF a <= b THEN a ELSE b

\* The list comprehension over STORE.list_complete_products(): r is what the
\* comprehension has done up to element i - 1 of names.
RECURSIVE ProductPairs(_, _, _, _, _, _)
ProductPairs(r, stored, now, index_names, names, i) ==
    IF i > Len(names) \/ r.raised # ""
    THEN r
    ELSE IF names[i] \notin index_names
         THEN [r EXCEPT !.raised = "KeyError"]
         ELSE LET s == get_summary(r.cache, stored, <<names[i], None, None, None>>, now)
              IN  ProductPairs(
                      [r EXCEPT !.cache = s.cache,
                                !.value = Append(r.value, <<DatasetType(names[i]), s.value>>),
                                !.backend = r.backend + s.backend,
                                !.asof = Min2(r.asof, s.asof)],
                      stored, now, index_names, names, i + 1)

\* index_names: the names of STORE.index.products.get_all();
\* complete: the list STORE.list_complete_products() answers.
get_products_with_summaries(c, stored, now, index_names, complete) ==
    LET ck == <<"get_products_with_summaries", <<>>>>
    IN  IF MemoHit(c, ck, now)
        THEN FromCache(c, ck, now)
        ELSE LET start == [Returned(c) EXCEPT !.value = <<>>, !.backend = 2, !.asof = now]
                 r == ProductPairs(start, stored, now, index_names, complete, 1)
                 products == [type |-> "list", items |-> r.value]
             IN  IF r.raised # ""
                 THEN [r EXCEPT !.value = None]
                 ELSE IF r.value = <<>>
                      THEN [r EXCEPT !.value = None, !.raised = "RuntimeError"]
                      ELSE [r EXCEPT !.value = products,
                                     !.cache = SimpleCacheSet(r.cache, ck, products,
                                                              ProductsTimeout, now, r.asof)]

(***************************************************************************)
(* get_footprint_geojson                                                   *)
(***************************************************************************)
\* The footprint Feature with the summary's dataset_count as its count.
FootprintFeature_dataset_count(period, footprint, k) ==
    [type |-> "Feature",
     geometry |-> GeoInterface(footprint),
     properties |-> [dataset_count |-> period.dataset_count,
                     product_name |-> k[1],
                     time_spec |-> <<k[2], k[3], k[4]>>]]

FootprintFeature(period, footprint, k) ==
    [type |-> "Feature",
     geometry |-> GeoInterface(footprint),
     properties |-> [dataset_count |-> period.footprint_count,
                     product_name |-> k[1],
                     time_spec |-> <<k[2], k[3], k[4]>>]]

get_footprint_geojson(c, stored, k, now) ==
    LET ck == <<"get_footprint_geojson", k>>
    IN  IF MemoHit(c, ck, now)
        THEN FromCache(c, ck, now)
        ELSE LET s == get_summary(c, stored, k, now)
                 period == s.value
                 footprint == _get_footprint(period)
                 value == IF period = None \/ footprint = None
                          THEN None
                          ELSE FootprintFeature(period, footprint, k)
             IN  [s EXCEPT !.cache = SimpleCacheSet(s.cache, ck, value, FootprintTimeout,
                                                    now, s.asof),
                           !.value = value,
                           !.hit = FALSE,
                           !.period = period]

(***************************************************************************)
(* get_regions_geojson                                                     *)
(***************************************************************************)
Values(f) == {f[x] : x \in DOMAIN f}

Minimum(S) == CHOOSE x \in S : \A y \in S : x <= y

Maximum(S) == CHOOSE x \in S : \A y \in S : y <= x

\* The outcome of _get_regions_geojson: the value and the exception raised.
_get_regions_geojson(region_counts, footprint, region_info) ==
    IF ~region_geometry_callable(region_info, footprint)
    THEN [value |-> None, raised |-> "", minmax |-> FALSE]
    ELSE IF DOMAIN region_counts = {}
         THEN [value |-> None, raised |-> "ValueError", minmax |-> TRUE]
         ELSE IF ~region_info.has_extent
              THEN [value |-> None, raised |-> "TypeError", minmax |-> TRUE]
              ELSE [value |->
                        [type |-> "FeatureCollection",
                         properties |-> [region_type |-> region_info.name,
                                         region_unit_label |-> region_info.unit_label,
                                         min_count |-> Minimum(Values(region_counts)),
                                         max_count |-> Maximum(Values(region_counts))],
                         features |->
                             [region_code \in DOMAIN region_counts |->
                                 [type |-> "Feature",
                                  geometry |-> GeoInterface(
                                      _region_geometry_function(region_info, footprint,
                                                                region_code).geometry),
                                  properties |-> [region_code |-> region_code,
                                                  label |-> region_label(region_code),
                                                  count |-> region_counts[region_code]]]]],
                    raised |-> "",
                    minmax |-> TRUE]

\* get_regions_geojson testing the region counts before the product.
get_regions_geojson_counts_first(period, product, region_info) ==
    LET absent == [value |-> None, raised |-> "", minmax |-> FALSE, backend |-> 1]
    IN  IF period = None
        THEN [absent EXCEPT !.backend = 0]
        ELSE IF DOMAIN period.region_dataset_counts = {}
             THEN [absent EXCEPT !.backend = 0]
             ELSE IF product = None
                  THEN [absent EXCEPT !.raised = "RuntimeError"]
                  ELSE IF region_info = None
                       THEN absent
                       ELSE LET g == _get_regions_geojson(period.region_dataset_counts,
                                                          _get_footprint(period),
                                                          region_info)
                            IN  [absent EXCEPT !.value = g.value,
                                               !.raised = g.raised,
                                               !.minmax = g.minmax]

\* get_regions_geojson without its test of empty region counts.
get_regions_geojson_no_empty_test(period, product, region_info) ==
    LET absent == [value |-> None, raised |-> "", minmax |-> FALSE, backend |-> 1]
    IN  IF period = None
        THEN [absent EXCEPT !.backend = 0]
        ELSE IF product = None
             THEN [absent EXCEPT !.raised = "RuntimeError"]
             ELSE IF region_info = None
                  THEN absent
                  ELSE LET g == _get_regions_geojson(period.region_dataset_counts,
                                                     _get_footprint(period),
                                                     region_info)
                       IN  [absent EXCEPT !.value = g.value,
                                          !.raised = g.raised,
                                          !.minmax = g.minmax]

\* The function under the decorator, from the summary get_summary answered:
\* product is what STORE.index.products.get_by_name(product_name) answers,
\* region_info what RegionInfo.for_product(product) answers; backend counts
\* the calls to STORE.
get_regions_geojson_uncached(period, product, region_info) ==
    LET absent == [value |-> None, raised |-> "", minmax |-> FALSE, backend |-> 1]
    IN  IF period = None
        THEN [absent EXCEPT !.backend = 0]
        ELSE IF product = None
             THEN [absent EXCEPT !.raised = "RuntimeError"]
             ELSE IF DOMAIN period.region_dataset_counts = {}
                  THEN absent
                  ELSE IF region_info = None
                       THEN absent
                       ELSE LET g == _get_regions_geojson(period.region_dataset_counts,
                                                          _get_footprint(period),
                                                          region_info)
                            IN  [absent EXCEPT !.value = g.value,
                                               !.raised = g.raised,
                                               !.minmax = g.minmax]

get_regions_geojson(c, stored, k, now, product, region_info) ==
    LET ck == <<"get_regions_geojson", k>>
    IN  IF MemoHit(c, ck, now)
        THEN FromCache(c, ck, now)
        ELSE LET s == get_summary(c, stored, k, now)
                 r == get_regions_geojson_uncached(s.value, product, region_info)
             IN  [s EXCEPT !.cache = IF r.raised # ""
                                     THEN s.cache
                                     ELSE SimpleCacheSet(s.cache, ck, r.value,
                                                         RegionsTimeout, now, s.asof),
                           !.value = r.value,
                           !.raised = r.raised,
                           !.minmax = r.minmax,
                           !.backend = s.backend + r.backend,
                           !.hit = FALSE,
                           !.period = s.value]

(***************************************************************************)
(* The state machine: calls to the memoized queries, and the clock.        *)
(***************************************************************************)
NoInputs ==
    [product |-> None, file |-> None, backend_updated |-> None,
     index_names |-> {}, complete |-> <<>>]

\* The last call: what it was, what it did (see Returned), and history:
\* now is the time of the call; held and heldValue are the unexpired entry
\* the cache held for the call's key when the call was made; current is the
\* backend's summary of the call's key when the call returned; inputs is
\* what the backend and the file system answered to a call that asked.
NoCall ==
    [fn |-> "", args |-> <<>>, now |-> 0, value |-> None, raised |-> "", hit |-> FALSE,
     backend |-> 0, asof |-> 0, refreshed |-> FALSE, warned |-> FALSE, period |-> None,
     minmax |-> FALSE, held |-> FALSE, heldValue |-> None, current |-> None,
     inputs |-> NoInputs]

EmptyCache == [ck \in CacheKeys |-> NoEntry]

Init ==
    /\ clock = 0
    /\ cache = EmptyCache
    /\ last = NoCall
    /\ calls = 0
    /\ clipFootprint = None
    /\ clipResult = None

\* One call of memoized query fn with arguments args, whose outcome is o.
Call(fn, args, o, current, inputs) ==
    /\ calls < MaxCalls
    /\ calls' = calls + 1
    /\ cache' = o.cache
    /\ last' = [fn |-> fn, args |-> args, now |-> clock, value |-> o.value,
                raised |-> o.raised, hit |-> o.hit, backend |-> o.backend,
                asof |-> o.asof, refreshed |-> o.refreshed, warned |-> o.warned,
                period |-> o.period, minmax |-> o.minmax,
                held |-> Unexpired(cache, <<fn, args>>, clock),
                heldValue |-> SimpleCacheGet(cache, <<fn, args>>, clock),
                current |-> current,
                inputs |-> IF o.hit THEN NoInputs ELSE inputs]
    /\ UNCHANGED <<clock, clipFootprint, clipResult>>

\* What a call is answered by the backend, the catalog or the file system:
\* any of `answers` to a call that asks, and a call answered from the cache
\* asks nothing (one answer stands for all of them).
Answers(ck, answers) ==
    IF MemoHit(cache, ck, clock) THEN {CHOOSE a \in answers : TRUE} ELSE answers

\* The summaries a call with cache key ck finds in the backend, of which it
\* reads those of the keys ks.
Asked(ck, ks) == IF MemoHit(cache, ck, clock) THEN StoredAt({}) ELSE StoredAt(ks)

\* The keys of which a nested get_summary(k) reads the backend's summary.
SummaryRead(k) == IF MemoHit(cache, <<"get_summary", k>>, clock) THEN {} ELSE {k}

CallGetSummary ==
    \E k \in Keys :
        \E stored \in StoredAt({k}) :
            Call("get_summary", k, get_summary(cache, stored, k, clock), stored[k], NoInputs)

CallGetDatasetsGeojson ==
    \E k \in Keys, limit \in Limits, footprints \in {"a", "b"} :
        Call("get_datasets_geojson", k \o <<limit>>,
             get_datasets_geojson(cache, k, limit, clock,
                                  [type |-> "FeatureCollection", features |-> footprints]),
             None, NoInputs)

CallGetLastUpdated ==
    \E file \in OptionalFiles, backend_updated \in BackendTimestamps :
        Call("get_last_updated", <<>>,
             get_last_updated(cache, clock, file, backend_updated),
             None,
             [NoInputs EXCEPT !.file = file, !.backend_updated = backend_updated])

CompleteLists == {<<>>} \cup {<<p>> : p \in Products}

CallGetProductsWithSummaries ==
    \E stored \in Asked(<<"get_products_with_summaries", <<>>>>,
                        {k \in Keys : k[4] = None}),
       index_names \in Answers(<<"get_products_with_summaries", <<>>>>, SUBSET Products),
       complete \in Answers(<<"get_products_with_summaries", <<>>>>, CompleteLists) :
        Call("get_products_with_summaries", <<>>,
             get_products_with_summaries(cache, stored, clock, index_names, complete),
             None,
             [NoInputs EXCEPT !.index_names = index_names, !.complete = complete])

CallGetFootprintGeojson ==
    \E k \in Keys :
        \E stored \in Asked(<<"get_footprint_geojson", k>>, SummaryRead(k)) :
            Call("get_footprint_geojson", k,
                 get_footprint_geojson(cache, stored, k, clock), None, NoInputs)

\* What the catalog answers for a product: the product and its RegionInfo,
\* the product and no RegionInfo, or no product.
CatalogAnswers(product_name) ==
    {[product |-> DatasetType(product_name), region_info |-> RegionInfoOf(TRUE)],
     [product |-> DatasetType(product_name), region_info |-> None],
     [product |-> None, region_info |-> None]}

CallGetRegionsGeojson ==
    \E k \in Keys :
        \E stored \in Asked(<<"get_regions_geojson", k>>, SummaryRead(k)),
           catalog \in Answers(<<"get_regions_geojson", k>>, CatalogAnswers(k[1])) :
            Call("get_regions_geojson", k,
                 get_regions_geojson(cache, stored, k, clock, catalog.product,
                                     catalog.region_info),
                 None,
                 [NoInputs EXCEPT !.product = catalog.product])

\* time.time() advances (while a call is still to come).
Tick ==
    /\ calls < MaxCalls
    /\ clock + TickStep <= MaxClock
    /\ clock' = clock + TickStep
    /\ UNCHANGED <<cache, last, calls, clipFootprint, clipResult>>

Next ==
    \/ CallGetSummary
    \/ CallGetProductsWithSummaries
    \/ CallGetFootprintGeojson
    \/ CallGetRegionsGeojson
    \/ Tick

Spec == Init /\ [][Next]_vars

(***************************************************************************)
(* The two queries that read no period summary, on their own.              *)
(***************************************************************************)
NextAux ==
    \/ CallGetDatasetsGeojson
    \/ CallGetLastUpdated
    \/ Tick

SpecAux == Init /\ [][NextAux]_vars

(***************************************************************************)
(* The region clipper on its own: any footprint over the tiles, or none,   *)
(* and any region code.                                                    *)
(***************************************************************************)
\* The tiles from column x1 to x2 and row y1 to y2.
Rectangle(x1, x2, y1, y2) ==
    {c \in Cells : x1 <= c[1] /\ c[1] <= x2 /\ y1 <= c[2] /\ c[2] <= y2}

Rectangles ==
    {Rectangle(x1, x2, y1, y2) : x1 \in 0 .. GridSize - 1, x2 \in 0 .. GridSize - 1,
                                 y1 \in 0 .. GridSize - 1, y2 \in 0 .. GridSize - 1}

\* Footprints: a rectangle of tiles less a rectangle (a hole, a notch, or
\* nothing), and the multipolygons of two rectangles.
FootprintCellSets ==
    ({r \ h : r \in Rectangles, h \in Rectangles}
        \cup {r \cup h : r \in Rectangles, h \in Rectangles}) \ {{}}

Footprints == {Geom(Polygon(cs)) : cs \in FootprintCellSets}

InitClip ==
    /\ clock = 0
    /\ cache = EmptyCache
    /\ last = NoCall
    /\ calls = 0
    /\ clipFootprint \in Footprints \cup {None}
    /\ clipResult = None

\* One region of the counts mapping is clipped against the footprint.
ClipRegion ==
    \E region_code \in RegionCodes :
        /\ clipResult = None
        /\ clipResult' =
               [type |-> "Clip", region_code |-> region_code,
                result |-> _region_geometry_function(RegionInfoOf(TRUE), clipFootprint,
                                                     region_code)]
        /\ UNCHANGED <<clock, cache, last, calls, clipFootprint>>

NextClip == ClipRegion

SpecClip == InitClip /\ [][NextClip]_vars

(***************************************************************************)
(* Properties.                                                             *)
(***************************************************************************)
KeyedQueries == {"get_summary", "get_footprint_geojson", "get_regions_geojson"}

\* The day of a call to a query keyed by (product_name, year, month, day).
DayOf(call) == call.args[4]

\* C1: for get_summary, get_datasets_geojson, get_last_updated and
\* get_products_with_summaries, a call made while the cache holds an entry
\* for its arguments whose TTL has not elapsed returns the stored value and
\* does not invoke the backend.
C1_CacheIdempotence ==
    (/\ last.fn \in {"get_summary", "get_datasets_geojson", "get_last_updated",
                     "get_products_with_summaries"}
     /\ last.held)
    => (last.value = last.heldValue /\ last.backend = 0)

\* What holds of the code in place of C1 and C2: an unexpired entry whose
\* value is not None answers the call, with no call to the backend.
StoredValueAnswers ==
    (last.fn # "" /\ last.held /\ last.heldValue # None)
    => (last.hit /\ last.value = last.heldValue /\ last.backend = 0)

\* C2: when get_summary, get_footprint_geojson or get_regions_geojson has
\* stored an absent result, a call with the same arguments within the TTL
\* returns absence without invoking the query or the backend.
C2_NegativeResultsCached ==
    (last.fn \in KeyedQueries /\ last.held /\ last.heldValue = None)
    => (last.hit /\ last.value = None /\ last.backend = 0)

\* C3: every call to get_summary with a day returns the backend's summary
\* as of that call.
C3_DayNeverStale ==
    (last.fn = "get_summary" /\ DayOf(last) # None) => last.value = last.current

\* C3, amended: a call to get_summary with a day that the cache does not
\* answer refreshes the backend's summary and returns it; a call the cache
\* answers refreshes nothing and returns the summary stored less than
\* SummaryTimeout seconds before.
C3_DayFreshOnMiss ==
    (last.fn = "get_summary" /\ DayOf(last) # None)
    => IF last.hit
       THEN /\ ~last.refreshed
            /\ last.backend = 0
            /\ last.value = last.heldValue
            /\ last.now - last.asof < SummaryTimeout
       ELSE /\ last.refreshed
            /\ last.value = last.current
            /\ last.asof = last.now

C3_Witness ==
    /\ last.fn = "get_summary"
    /\ DayOf(last) # None
    /\ ~last.hit
    /\ last.refreshed
    /\ last.value # None
    /\ last.now > 0

(***************************************************************************)
(* The clipper's properties, of the region last clipped.                   *)
(***************************************************************************)
Clipped == clipFootprint # None /\ clipResult # None

ClipExtent == region_shape(clipResult.region_code).points

ClipTouchesBoundary == Intersects(Boundary(clipFootprint.points), ClipExtent)

\* C4: with a footprint, a region whose extent does not intersect the
\* footprint's boundary (it then lies wholly inside or wholly outside the
\* footprint) gets its full extent, and no intersection is computed.
C4_CheapPathKeepsExtent ==
    (Clipped /\ ~ClipTouchesBoundary)
    => /\ clipResult.result.geometry = region_shape(clipResult.region_code)
       /\ ~clipResult.result.cut
       /\ \/ ClipExtent \subseteq clipFootprint.points
          \/ ClipExtent \cap clipFootprint.points = {}

C4_Witness ==
    /\ Clipped
    /\ ~ClipTouchesBoundary
    /\ ClipExtent \subseteq clipFootprint.points
    /\ clipResult.result.geometry.points = ClipExtent

\* C5: with a footprint, a region whose extent intersects the footprint's
\* boundary gets the intersection of the footprint with its extent, which
\* lies within the extent and within the footprint.
C5_CutIsIntersection ==
    (Clipped /\ ClipTouchesBoundary)
    => /\ clipResult.result.cut
       /\ \A a \in Atoms :
             a \in clipResult.result.geometry.points
                <=> (a \in clipFootprint.points /\ a \in ClipExtent)
       /\ clipResult.result.geometry.points \subseteq ClipExtent
       /\ clipResult.result.geometry.points \subseteq clipFootprint.points

C5_Witness ==
    /\ Clipped
    /\ ClipTouchesBoundary
    /\ clipResult.result.geometry.points # ClipExtent
    /\ \E a \in clipResult.result.geometry.points : a[1] % 2 = 1 /\ a[2] % 2 = 1

(***************************************************************************)
(* The assembled outputs.                                                  *)
(***************************************************************************)
ReturnedFeature ==
    /\ last.fn = "get_footprint_geojson"
    /\ last.value # None

\* The Feature names the product and the time bucket asked for.
FeatureNamesRequest ==
    /\ last.value.properties.product_name = last.args[1]
    /\ last.value.properties.time_spec = <<last.args[2], last.args[3], last.args[4]>>

\* C6: a Feature get_footprint_geojson returns has the summary's
\* dataset_count as properties.dataset_count, the requested product name
\* and the requested [year, month, day].
C6_FeatureHasDatasetCount ==
    ReturnedFeature
    => /\ FeatureNamesRequest
       /\ ~last.hit => last.value.properties.dataset_count = last.period.dataset_count

\* C6, amended: properties.dataset_count is the summary's footprint_count.
C6_FeatureHasFootprintCount ==
    ReturnedFeature
    => /\ FeatureNamesRequest
       /\ last.value.type = "Feature"
       /\ ~last.hit => last.value.properties.dataset_count = last.period.footprint_count

C6_Witness ==
    /\ ReturnedFeature
    /\ ~last.hit
    /\ DayOf(last) # None
    /\ last.period.footprint_count # last.period.dataset_count
    /\ last.value.properties.dataset_count = last.period.footprint_count

\* A call of get_regions_geojson that the cache did not answer and that got
\* a period summary.
ComputedRegions ==
    /\ last.fn = "get_regions_geojson"
    /\ ~last.hit
    /\ last.period # None

\* A call of get_products_with_summaries that the cache did not answer.
ComputedProducts == last.fn = "get_products_with_summaries" /\ ~last.hit

MissingFromIndex ==
    \E i \in DOMAIN last.inputs.complete :
        last.inputs.complete[i] \notin last.inputs.index_names

\* C7: a computation that finds a product with a summary unresolvable in
\* the catalog raises and returns no value: get_regions_geojson whatever
\* the region counts are, get_products_with_summaries when a complete
\* product is missing from the catalog's products.
C7_UnknownProductRaises ==
    /\ (ComputedRegions /\ last.inputs.product = None)
       => (last.raised = "RuntimeError" /\ last.value = None)
    /\ (ComputedProducts /\ MissingFromIndex)
       => (last.raised = "KeyError" /\ last.value = None)

C7_Witness ==
    /\ ComputedRegions
    /\ last.inputs.product = None
    /\ DOMAIN last.period.region_dataset_counts = {}
    /\ last.raised = "RuntimeError"

EmptyCounts == DOMAIN last.period.region_dataset_counts = {}

\* C9: for a product with a period summary whose region_dataset_counts is
\* empty, get_regions_geojson returns None, raises nothing and evaluates no
\* minimum or maximum.
C9_EmptyCountsAbsent ==
    (ComputedRegions /\ EmptyCounts)
    => (last.value = None /\ last.raised = "" /\ ~last.minmax)

\* C9, amended: so it is for a product the catalog resolves.
C9_EmptyCountsAbsentWhenResolved ==
    (ComputedRegions /\ EmptyCounts /\ last.inputs.product # None)
    => (last.value = None /\ last.raised = "" /\ ~last.minmax)

C9_Witness ==
    /\ ComputedRegions
    /\ EmptyCounts
    /\ last.inputs.product # None
    /\ last.value = None
    /\ last.raised = ""

Assembled ==
    /\ last.fn \in {"get_footprint_geojson", "get_regions_geojson"}
    /\ last.raised = ""

\* C10: a value get_footprint_geojson or get_regions_geojson returns was
\* derived from a summary read from the backend no more than one TTL
\* before.
C10_StaleOneTimeout == Assembled => last.now - last.asof <= FootprintTimeout

\* C10, amended: less than two TTLs before (the entry's and the one of the
\* get_summary entry it was computed from, 60 s each), because an entry the
\* two functions store expires less than two TTLs after the read of the
\* summary it was built from.
C10_StaleTwoTimeouts ==
    /\ Assembled => last.now - last.asof < 2 * SummaryTimeout
    /\ \A ck \in CacheKeys :
           (ck[1] \in {"get_footprint_geojson", "get_regions_geojson"}
               /\ cache[ck].type = "Entry")
           => cache[ck].expires - cache[ck].asof < 2 * SummaryTimeout

C10_Witness ==
    /\ Assembled
    /\ last.hit
    /\ last.value # None
    /\ last.now - last.asof > FootprintTimeout

====
